---- MODULE Spec2Model ----
(***************************************************************************)
(* A model of deserialize (src/deserialize.ts): a recursive-descent parser *)
(* over an immutable buffer with a shared cursor, followed by the          *)
(* reference-resolution walk.  Characters are one-character strings, the   *)
(* buffer is a sequence of characters, and objects and arrays live in a    *)
(* heap so that identity (the same address) differs from equality.         *)
(***************************************************************************)
EXTENDS Integers, Sequences, FiniteSets, TLC

VARIABLES
    buf,        \* the input text (code), a sequence of characters
    classes,    \* the own keys of options.classes
    pos,        \* the cursor, 0-based as in the source
    stack,      \* the call stack, innermost frame last
    ret,        \* the value the last finished call returned
    refs,       \* the reference table
    heap,       \* the arrays and objects built so far, by address
    warnings,   \* the class names console.warn was called with
    status,     \* "running", "returned" or "threw"
    err,        \* the error thrown, when status = "threw"
    result,     \* the value deserialize returned, when status = "returned"
    parsed,     \* history: the heap as it was when parsing ended
    docs,       \* the inputs of the calls still to be made on this run
    saved       \* the outcome of the previous call on this run

vars == <<buf, classes, pos, stack, ret, refs, heap, warnings, status, err,
          result, parsed, docs, saved>>

\* ------------------------------------------------------------ bounds

\* Pieces concatenated into an input of the general specification.
MaxPieces == 4
\* Statements of an input of the reference specification.
MaxStmts == 3
\* Characters of an input of the number specification.
MaxNumLen == 5
\* Pieces of an input of the class-tag specification.
MaxTagPieces == 4
\* Tokens of a document of the whitespace specification.
MaxTokens == 5
\* Iterations a lexer loop is followed once the cursor is past the end.
MaxOverrun == 2
\* Frames of resolveRef the engine's call stack holds before it overflows.
MaxDepth == 12

\* -------------------------------------------------------- characters

DQ == "\""
BS == "\\"
\* buf[pos] past the end of the buffer.
Undef == "undefined"

\* src/deserialize.ts:1
WS_CHARS == {"\r", "\n", "\t", " "}
\* src/deserialize.ts:2
NUM_CHARS == {"0", "1", "2", "3", "4", "5", "6", "7", "8", "9"}

UpperChars == {"A", "B", "C", "D", "E", "F", "G", "H", "I", "J", "K", "L", "M",
               "N", "O", "P", "Q", "R", "S", "T", "U", "V", "W", "X", "Y", "Z"}
LowerChars == {"a", "b", "c", "d", "e", "f", "g", "h", "i", "j", "k", "l", "m",
               "n", "o", "p", "q", "r", "s", "t", "u", "v", "w", "x", "y", "z"}

\* buf[p]
At(p) == IF p >= 0 /\ p < Len(buf) THEN buf[p + 1] ELSE Undef

DigitVal(c) ==
    CASE c = "0" -> 0 [] c = "1" -> 1 [] c = "2" -> 2 [] c = "3" -> 3
      [] c = "4" -> 4 [] c = "5" -> 5 [] c = "6" -> 6 [] c = "7" -> 7
      [] c = "8" -> 8 [] c = "9" -> 9

\* The number a run of decimal digits denotes; +"" is 0.
RECURSIVE DigitsVal(_)
DigitsVal(ds) ==
    IF ds = <<>> THEN 0
    ELSE 10 * DigitsVal(SubSeq(ds, 1, Len(ds) - 1)) + DigitVal(ds[Len(ds)])

\* parseInt(c, 16) of one character; -1 stands for NaN.
HexVal(c) ==
    IF c \in NUM_CHARS THEN DigitVal(c)
    ELSE CASE c \in {"a", "A"} -> 10 [] c \in {"b", "B"} -> 11
           [] c \in {"c", "C"} -> 12 [] c \in {"d", "D"} -> 13
           [] c \in {"e", "E"} -> 14 [] c \in {"f", "F"} -> 15
           [] OTHER -> -1

\* String.fromCharCode: the character of a code unit.
FromCharCode(code) ==
    CASE code = 65 -> "A" [] code = 97 -> "a" [] code = 34 -> DQ
      [] code = 48 -> "0" [] code = 49 -> "1" [] code = 32 -> " "
      [] OTHER -> "U+" \o ToString(code)

\* src/deserialize.ts:4-12; "" stands for no entry.
STRING_ESC(c) ==
    CASE c = DQ -> DQ [] c = BS -> BS [] c = "b" -> "U+8" [] c = "f" -> "\f"
      [] c = "n" -> "\n" [] c = "r" -> "\r" [] c = "t" -> "\t"
      [] OTHER -> ""

\* The characters `${undefined}` appends to a string.
UndefinedText == <<"u", "n", "d", "e", "f", "i", "n", "e", "d">>

\* What `result += buf[p]` appends.
Appended(p) == IF At(p) = Undef THEN UndefinedText ELSE <<At(p)>>

\* ------------------------------------------------------------ values

Value(t) == [t |-> t, neg |-> FALSE, n |-> 0, e |-> 0, s |-> <<>>, f |-> <<>>]
Undefined == Value("undefined")
Null == Value("null")
NaN == Value("NaN")
Infinity(neg) == [Value("Infinity") EXCEPT !.neg = neg]
Bool(b) == [Value("boolean") EXCEPT !.neg = b]
Str(s) == [Value("string") EXCEPT !.s = s]
RegExp(s, f) == [Value("regexp") EXCEPT !.s = s, !.f = f]
BigInt(neg, n) == [Value("bigint") EXCEPT !.neg = neg /\ n # 0, !.n = n]
\* The placeholder parseRef returns: () => refs[index], marked with refSymbol.
Reference(index) == [Value("ref") EXCEPT !.n = index]
\* An array or object, by its address in the heap.
Ptr(a) == [Value("ptr") EXCEPT !.n = a]

\* A decimal mantissa and exponent with the trailing zeros moved out, so that
\* 1.0, 1 and 10e-1 are one number.
RECURSIVE Normal(_, _)
Normal(m, e) ==
    IF m = 0 THEN <<0, 0>>
    ELSE IF m % 10 = 0 THEN Normal(m \div 10, e + 1)
    ELSE <<m, e>>

\* isNeg ? -1 * +result : +result, for result = int [. frac] [e [-] exp].
Number(neg, int, frac, expNeg, exp) ==
    LET m == DigitsVal(int \o frac)
        x == (IF expNeg THEN 0 - DigitsVal(exp) ELSE DigitsVal(exp)) - Len(frac)
        nm == Normal(m, x)
    IN  [Value("number") EXCEPT !.neg = neg, !.n = nm[1], !.e = nm[2]]

\* ------------------------------------------------------------ errors

\* src/deserialize.ts:43-49
error(p) ==
    [kind |-> "SyntaxError",
     msg |-> IF At(p) = Undef THEN "Unexpected end in JSON at position"
             ELSE "Unexpected token in JSON at position",
     token |-> IF At(p) = Undef THEN "" ELSE At(p),
     pos |-> p]

NoError == [kind |-> "none", msg |-> "", token |-> "", pos |-> 0]

\* new RegExp(pattern) rejecting the pattern.
RegExpError == [kind |-> "SyntaxError", msg |-> "Invalid regular expression",
                token |-> "", pos |-> 0]
\* Object.setPrototypeOf(obj, undefined)
PrototypeError == [kind |-> "TypeError",
                   msg |-> "Object prototype may only be an Object or null",
                   token |-> "", pos |-> 0]
\* The call stack overflowing.
StackError == [kind |-> "RangeError", msg |-> "Maximum call stack size exceeded",
               token |-> "", pos |-> 0]

\* ----------------------------------------------------------- scanner

\* src/deserialize.ts:26-30
RECURSIVE white(_)
white(p) == IF At(p) \in WS_CHARS THEN white(p + 1) ELSE p

\* src/deserialize.ts:32-41: the cursor after the match, or the place of the
\* mismatch.
RECURSIVE consume(_, _)
consume(char, p) ==
    IF char = <<>> THEN [ok |-> TRUE, pos |-> p]
    ELSE IF At(p) = char[1] THEN consume(Tail(char), p + 1)
    ELSE [ok |-> FALSE, pos |-> p]

\* The end of the run of digits that starts at p.
RECURSIVE DigitsEnd(_)
DigitsEnd(p) == IF At(p) \in NUM_CHARS THEN DigitsEnd(p + 1) ELSE p

\* buf.slice(p, q)
Slice(p, q) == SubSeq(buf, p + 1, q)

IsNameStart(c) == c \in UpperChars \cup LowerChars
IsNameChar(c) == c \in UpperChars \cup LowerChars \cup NUM_CHARS \cup {"_"}

RECURSIVE NameEnd(_)
NameEnd(p) == IF IsNameChar(At(p)) THEN NameEnd(p + 1) ELSE p

\* src/deserialize.ts:357-380
parseName(p) ==
    IF IsNameStart(At(p))
    THEN LET q == NameEnd(p + 1) IN [name |-> Slice(p, q), pos |-> q]
    ELSE [name |-> <<>>, pos |-> p]

\* A variant of the number lexer that lets a "." end the number: lines 197-201
\* without their else branch.
parseNumberLenient(p) ==
    LET isNeg == At(p) = "-"
        p1 == IF isNeg THEN p + 1 ELSE p
        inf == consume(<<"n", "f", "i", "n", "i", "t", "y">>, p1 + 1)
        p2 == DigitsEnd(p1)
        hasFrac == At(p2) = "."
        p3 == IF hasFrac THEN DigitsEnd(p2 + 1) ELSE p2
        frac == IF hasFrac THEN Slice(p2 + 1, p3) ELSE <<>>
        hasExp == At(p3) \in {"e", "E"}
        expSign == hasExp /\ At(p3 + 1) \in {"-", "+"}
        p5 == IF expSign THEN p3 + 2 ELSE p3 + 1
        p6 == IF hasExp THEN DigitsEnd(p5) ELSE p3
        exp == IF hasExp THEN Slice(p5, p6) ELSE <<>>
        fail(q) == [ok |-> FALSE, value |-> Undefined, pos |-> q]
    IN  IF At(p1) = "I"
        THEN IF inf.ok
             THEN [ok |-> TRUE, value |-> Infinity(isNeg), pos |-> inf.pos]
             ELSE fail(inf.pos)
        ELSE IF At(p1) \notin NUM_CHARS THEN fail(p1)
        ELSE IF At(p2) = "n"
        THEN [ok |-> TRUE, value |-> BigInt(isNeg, DigitsVal(Slice(p1, p2))),
              pos |-> p2 + 1]
        ELSE IF hasExp /\ At(p5) \notin NUM_CHARS THEN fail(p5)
        ELSE [ok |-> TRUE,
              value |-> Number(isNeg, Slice(p1, p2), frac,
                               expSign /\ At(p3 + 1) = "-", exp),
              pos |-> p6]

\* src/deserialize.ts:171-222: the value and the cursor after it, or the place
\* of the error.
parseNumberAt(p) ==
    LET isNeg == At(p) = "-"
        p1 == IF isNeg THEN p + 1 ELSE p
        inf == consume(<<"n", "f", "i", "n", "i", "t", "y">>, p1 + 1)
        p2 == DigitsEnd(p1)
        hasFrac == At(p2) = "."
        p3 == IF hasFrac THEN DigitsEnd(p2 + 1) ELSE p2
        frac == IF hasFrac THEN Slice(p2 + 1, p3) ELSE <<>>
        hasExp == At(p3) \in {"e", "E"}
        expSign == hasExp /\ At(p3 + 1) \in {"-", "+"}
        p5 == IF expSign THEN p3 + 2 ELSE p3 + 1
        p6 == IF hasExp THEN DigitsEnd(p5) ELSE p3
        exp == IF hasExp THEN Slice(p5, p6) ELSE <<>>
        fail(q) == [ok |-> FALSE, value |-> Undefined, pos |-> q]
    IN  IF At(p1) = "I"
        THEN IF inf.ok
             THEN [ok |-> TRUE, value |-> Infinity(isNeg), pos |-> inf.pos]
             ELSE fail(inf.pos)
        ELSE IF At(p1) \notin NUM_CHARS THEN fail(p1)
        ELSE IF At(p2) = "n"
        THEN [ok |-> TRUE, value |-> BigInt(isNeg, DigitsVal(Slice(p1, p2))),
              pos |-> p2 + 1]
        ELSE IF hasFrac /\ At(p2 + 1) \notin NUM_CHARS THEN fail(p2 + 1)
        ELSE IF hasExp /\ At(p5) \notin NUM_CHARS THEN fail(p5)
        ELSE [ok |-> TRUE,
              value |-> Number(isNeg, Slice(p1, p2), frac,
                               expSign /\ At(p3 + 1) = "-", exp),
              pos |-> p6]

\* src/deserialize.ts:267-347: the flags after the closing "/" at p - 1 and the
\* cursor after them.  The nested switches take a first flag, then one of the
\* other two, then the remaining one.
regExpFlags(p) ==
    LET all == {"i", "m", "g"}
        c1 == At(p)
        c2 == At(p + 1)
        c3 == At(p + 2)
    IN  IF c1 \notin all THEN [flags |-> <<>>, pos |-> p]
        ELSE IF c2 \notin all \ {c1} THEN [flags |-> <<c1>>, pos |-> p + 1]
        ELSE IF c3 \notin all \ {c1, c2}
        THEN [flags |-> <<c1, c2>>, pos |-> p + 2]
        ELSE [flags |-> <<c1, c2, c3>>, pos |-> p + 3]

\* The characters with a meaning of their own in a pattern.
RegExpSyntaxChars == {"[", "]", "(", ")", "{", "}", "*", "+", "?", "|", "^"}

\* Whether new RegExp(pattern) may succeed and whether it may throw.  A pattern
\* of plain characters and escapes always compiles (a "\" is always followed
\* by a character here); for one with syntax characters the engine decides,
\* and both outcomes are allowed.
RegExpOutcomes(pattern) ==
    IF \E i \in 1..Len(pattern) : pattern[i] \in RegExpSyntaxChars
    THEN {TRUE, FALSE}
    ELSE {TRUE}

\* -------------------------------------------------------------- heap

Cell(kind) == [kind |-> kind, keys |-> <<>>, vals |-> <<>>, proto |-> <<>>]

IsArray(v) == v.t = "ptr" /\ heap[v.n].kind = "array"

KeyIndex(keys, key) ==
    IF \E i \in 1..Len(keys) : keys[i] = key
    THEN CHOOSE i \in 1..Len(keys) : keys[i] = key
    ELSE 0

\* cell[key] = v: an own key keeps its place, a new one goes last.
SetKey(cell, key, v) ==
    LET i == KeyIndex(cell.keys, key)
    IN  IF i = 0
        THEN [cell EXCEPT !.keys = Append(@, key), !.vals = Append(@, v)]
        ELSE [cell EXCEPT !.vals[i] = v]

\* A canonical array index: "0", or digits that do not start with "0".
IsIndexKey(key) ==
    /\ key # <<>>
    /\ \A i \in 1..Len(key) : key[i] \in NUM_CHARS
    /\ key = <<"0">> \/ key[1] # "0"

\* The sequence with x put before the first element whose number is larger.
RECURSIVE InsertIndexKey(_, _)
InsertIndexKey(sorted, x) ==
    IF sorted = <<>> THEN <<x>>
    ELSE IF DigitsVal(x) < DigitsVal(sorted[1]) THEN <<x>> \o sorted
    ELSE <<sorted[1]>> \o InsertIndexKey(Tail(sorted), x)

RECURSIVE SortIndexKeys(_)
SortIndexKeys(keys) ==
    IF keys = <<>> THEN <<>>
    ELSE InsertIndexKey(SortIndexKeys(Tail(keys)), keys[1])

\* The index of array element i as a key.
RECURSIVE IndexKey(_)
IndexKey(i) ==
    LET d == <<"0", "1", "2", "3", "4", "5", "6", "7", "8", "9">>[(i % 10) + 1]
    IN  IF i < 10 THEN <<d>> ELSE IndexKey(i \div 10) \o <<d>>

\* The keys `for (const key in value)` visits: the indices of an array; of an
\* object the index keys in ascending order, then the others as inserted.  A
\* class prototype is taken to have no enumerable property.
ForInKeys(v) ==
    IF v.t # "ptr" THEN <<>>
    ELSE LET cell == heap[v.n]
             isIdx(k) == IsIndexKey(k)
             notIdx(k) == ~IsIndexKey(k)
         IN  IF cell.kind = "array"
             THEN [i \in 1..Len(cell.vals) |-> IndexKey(i - 1)]
             ELSE SortIndexKeys(SelectSeq(cell.keys, isIdx))
                  \o SelectSeq(cell.keys, notIdx)

\* value[key]
GetKey(h, v, key) ==
    LET cell == h[v.n]
    IN  IF cell.kind = "array" THEN cell.vals[DigitsVal(key) + 1]
        ELSE cell.vals[KeyIndex(cell.keys, key)]

\* value[key] = x, for a key value has.
PutKey(h, v, key, x) ==
    LET cell == h[v.n]
    IN  IF cell.kind = "array"
        THEN [h EXCEPT ![v.n].vals[DigitsVal(key) + 1] = x]
        ELSE [h EXCEPT ![v.n].vals[KeyIndex(cell.keys, key)] = x]

\* ------------------------------------------------------------ frames

Frame(fn, pc) ==
    [fn |-> fn, pc |-> pc, acc |-> <<>>, addr |-> 0, key |-> <<>>, idx |-> 0,
     v |-> Undefined]

Top == stack[Len(stack)]
Pop == SubSeq(stack, 1, Len(stack) - 1)
\* The stack with its innermost frame replaced.
Swap(f) == Append(Pop, f)
\* The stack with the innermost frame replaced by f and g called from it.
Call(f, g) == Append(Append(Pop, f), g)

Running(fn) == status = "running" /\ stack # <<>> /\ Top.fn = fn

\* One step of the running call: its stack, cursor, returned value and heap.
Go(stk, p, r, h) ==
    /\ stack' = stk
    /\ pos' = p
    /\ ret' = r
    /\ heap' = h
    /\ UNCHANGED <<buf, classes, refs, warnings, status, err, result, parsed, docs, saved>>

\* return v, with the cursor at p.
Return(v, p) == Go(Pop, p, v, heap)

\* throw e, with the cursor at p: nothing catches it, so the call ends.
Throw(e, p) ==
    /\ status' = "threw"
    /\ err' = e
    /\ pos' = p
    /\ stack' = <<>>
    /\ UNCHANGED <<buf, classes, ret, refs, heap, warnings, result, parsed, docs, saved>>

\* ----------------------------------------------------------- parser

\* The inherited keys of `{}` a name can spell: mapClasses[name] finds them on
\* Object.prototype when options.classes has no such own key.
ObjectConstructorKey == <<"c", "o", "n", "s", "t", "r", "u", "c", "t", "o", "r">>
ObjectMethodKeys ==
    {<<"t", "o", "S", "t", "r", "i", "n", "g">>,
     <<"v", "a", "l", "u", "e", "O", "f">>,
     <<"t", "o", "L", "o", "c", "a", "l", "e", "S", "t", "r", "i", "n", "g">>,
     <<"h", "a", "s", "O", "w", "n", "P", "r", "o", "p", "e", "r", "t", "y">>,
     <<"i", "s", "P", "r", "o", "t", "o", "t", "y", "p", "e", "O", "f">>,
     <<"p", "r", "o", "p", "e", "r", "t", "y", "I", "s", "E", "n", "u", "m", "e",
       "r", "a", "b", "l", "e">>}

\* src/deserialize.ts:95: mapClasses[name] ?? null
baseClass(name) ==
    IF name \in classes THEN "class"
    ELSE IF name = ObjectConstructorKey THEN "Object"
    ELSE IF name \in ObjectMethodKeys THEN "method"
    ELSE "null"

\* src/deserialize.ts:79-92: the literal a name spells, if any.
IsKeyword(name) ==
    name \in {<<"N", "a", "N">>, <<"I", "n", "f", "i", "n", "i", "t", "y">>,
              <<"u", "n", "d", "e", "f", "i", "n", "e", "d">>,
              <<"n", "u", "l", "l">>, <<"t", "r", "u", "e">>,
              <<"f", "a", "l", "s", "e">>}

Keyword(name) ==
    CASE name = <<"N", "a", "N">> -> NaN
      [] name = <<"I", "n", "f", "i", "n", "i", "t", "y">> -> Infinity(FALSE)
      [] name = <<"u", "n", "d", "e", "f", "i", "n", "e", "d">> -> Undefined
      [] name = <<"n", "u", "l", "l">> -> Null
      [] name = <<"t", "r", "u", "e">> -> Bool(TRUE)
      [] name = <<"f", "a", "l", "s", "e">> -> Bool(FALSE)

\* src/deserialize.ts:51-108.  `return parseX()` hands the frame over to parseX.
parseJson ==
    /\ Running("parseJson")
    /\ IF Top.pc = "start"
       THEN LET p == white(pos)
                c == At(p)
                nm == parseName(p)
                to(fn, pc) == Go(Swap(Frame(fn, pc)), p, ret, heap)
            IN  CASE c = "$" -> to("parseRef", "start")
                  [] c = "{" -> to("parseObject", "open")
                  [] c = "[" -> to("parseArray", "open")
                  [] c = "/" -> to("parseRegExp", "open")
                  [] c = DQ -> to("parseString", "open")
                  [] c \in NUM_CHARS \cup {"-"} -> to("parseNumber", "start")
                  [] OTHER ->
                       IF IsKeyword(nm.name) THEN Return(Keyword(nm.name), nm.pos)
                       ELSE IF At(nm.pos) = "{"
                       THEN Go(Call([Top EXCEPT !.pc = "tag", !.key = nm.name],
                                    Frame("parseObject", "open")),
                               nm.pos, ret, heap)
                       ELSE Throw(error(nm.pos), nm.pos)
       ELSE \* "tag": parseObject has returned obj (lines 95-102)
            LET name == Top.key
                base == baseClass(name)
            IN  CASE base = "null" ->
                       /\ warnings' = Append(warnings, name)
                       /\ stack' = Pop
                       /\ UNCHANGED <<buf, classes, pos, ret, refs, heap, status,
                                      err, result, parsed, docs, saved>>
                  [] base = "class" ->
                       Go(Pop, pos, ret, [heap EXCEPT ![ret.n].proto = name])
                  [] base = "Object" -> Go(Pop, pos, ret, heap)
                  [] base = "method" -> Throw(PrototypeError, pos)

\* src/deserialize.ts:110-118
parseRef ==
    /\ Running("parseRef")
    /\ LET q == DigitsEnd(pos + 1)
       IN  Return(Reference(DigitsVal(Slice(pos + 1, q))), q)

\* src/deserialize.ts:171-222
parseNumber ==
    /\ Running("parseNumber")
    /\ LET r == parseNumberAt(pos)
       IN  IF r.ok THEN Return(r.value, r.pos) ELSE Throw(error(r.pos), r.pos)

\* src/deserialize.ts:120-139
parseArray ==
    /\ Running("parseArray")
    /\ LET a == IF Top.pc = "first" THEN Len(heap) + 1 ELSE Top.addr
           \* lines 129-138, with the array at a in heap h and the cursor at p
           rest(h, p) ==
               IF At(p) = ","
               THEN Go(Call([Top EXCEPT !.pc = "elem", !.addr = a],
                            Frame("parseJson", "start")),
                       p + 1, ret, h)
               ELSE IF At(p) = "]" THEN Go(Pop, p + 1, Ptr(a), h)
               ELSE Throw(error(p), p)
       IN  CASE Top.pc = "open" ->
                  LET p == white(pos + 1)
                  IN  IF At(p) = "]"
                      THEN Go(Pop, p + 1, Ptr(Len(heap) + 1),
                              Append(heap, Cell("array")))
                      ELSE Go(Call([Top EXCEPT !.pc = "first"],
                                   Frame("parseJson", "start")),
                              p, ret, heap)
             [] Top.pc = "first" ->
                  rest(Append(heap, [Cell("array") EXCEPT !.vals = <<ret>>]),
                       white(pos))
             [] Top.pc = "elem" ->
                  rest([heap EXCEPT ![a].vals = Append(@, ret)], white(pos))

\* src/deserialize.ts:141-169
parseObject ==
    /\ Running("parseObject")
    /\ CASE Top.pc = "open" ->
              LET p == white(pos + 1)
                  a == Len(heap) + 1
                  h == Append(heap, Cell("object"))
              IN  IF At(p) = "}" THEN Go(Pop, p + 1, Ptr(a), h)
                  ELSE Go(Call([Top EXCEPT !.pc = "afterKey", !.addr = a],
                               Frame("parseString", "open")),
                          p, ret, h)
         [] Top.pc = "afterKey" ->
              LET p == white(pos)
              IN  IF At(p) # ":" THEN Throw(error(p), p)
                  ELSE Go(Call([Top EXCEPT !.pc = "afterVal", !.key = ret.s],
                               Frame("parseJson", "start")),
                          p + 1, ret, heap)
         [] Top.pc = "afterVal" ->
              LET h == [heap EXCEPT ![Top.addr] = SetKey(@, Top.key, ret)]
                  p == white(pos)
              IN  IF At(p) = ","
                  THEN Go(Call([Top EXCEPT !.pc = "afterKey"],
                               Frame("parseString", "open")),
                          white(p + 1), ret, h)
                  ELSE IF At(p) = "}" THEN Go(Pop, p + 1, Ptr(Top.addr), h)
                  ELSE Throw(error(p), p)

\* The place of the first of the four characters from p that is no hex digit,
\* or -1.
BadHex(p) ==
    IF \E i \in 0..3 : HexVal(At(p + i)) < 0
    THEN p + CHOOSE i \in 0..3 : /\ HexVal(At(p + i)) < 0
                                 /\ \A j \in 0..(i - 1) : HexVal(At(p + j)) >= 0
    ELSE -1

\* uffff of lines 236-244
HexCode(p) ==
    ((HexVal(At(p)) * 16 + HexVal(At(p + 1))) * 16 + HexVal(At(p + 2))) * 16
    + HexVal(At(p + 3))

\* src/deserialize.ts:224-256, one iteration of the loop a step
parseString ==
    /\ Running("parseString")
    /\ pos < Len(buf) + MaxOverrun
    /\ LET more(chars, p) == Go(Swap([Top EXCEPT !.acc = @ \o chars]), p, ret, heap)
       IN  IF Top.pc = "open"
           THEN Go(Swap([Top EXCEPT !.pc = "loop"]), pos + 1, ret, heap)
           ELSE IF At(pos) = DQ THEN Return(Str(Top.acc), pos + 1)
           ELSE IF At(pos) = BS
           THEN IF At(pos + 1) = "u"
                THEN IF BadHex(pos + 2) >= 0
                     THEN Throw(error(BadHex(pos + 2)), BadHex(pos + 2))
                     ELSE more(<<FromCharCode(HexCode(pos + 2))>>, pos + 6)
                ELSE IF STRING_ESC(At(pos + 1)) # ""
                THEN more(<<STRING_ESC(At(pos + 1))>>, pos + 2)
                ELSE Throw(error(pos + 1), pos + 1)
           ELSE more(Appended(pos), pos + 1)

\* The flags of a RegExp in the engine's order.
Flags(fs) ==
    LET has(c) == \E i \in 1..Len(fs) : fs[i] = c
        one(c) == IF has(c) THEN <<c>> ELSE <<>>
    IN  one("g") \o one("i") \o one("m")

\* src/deserialize.ts:258-355, one iteration of the loop a step
parseRegExp ==
    /\ Running("parseRegExp")
    /\ pos < Len(buf) + MaxOverrun
    /\ LET more(chars, p) == Go(Swap([Top EXCEPT !.acc = @ \o chars]), p, ret, heap)
           fl == regExpFlags(pos + 1)
       IN  IF Top.pc = "open"
           THEN IF At(pos + 1) = "/" THEN Throw(error(pos + 1), pos + 1)
                ELSE Go(Swap([Top EXCEPT !.pc = "loop"]), pos + 1, ret, heap)
           ELSE IF At(pos) = "/"
           THEN \E compiles \in RegExpOutcomes(Top.acc) :
                    IF compiles
                    THEN Return(RegExp(Top.acc, Flags(fl.flags)), fl.pos)
                    ELSE Throw(RegExpError, fl.pos)
           ELSE IF At(pos) = BS
           THEN more(Appended(pos) \o Appended(pos + 1), pos + 2)
           ELSE more(Appended(pos), pos + 1)

\* --------------------------------------------------------- resolver

\* resolveRef(value), called from frame f with the heap h; the engine's call
\* stack is finite.
CallResolve(f, value, h) ==
    IF Len(stack) + 1 > MaxDepth THEN Throw(StackError, pos)
    ELSE Go(Call(f, [Frame("resolveRef", "entry") EXCEPT !.v = value]), pos, ret, h)

\* refs[index], which the placeholder returns when called
Deref(index) == IF index < Len(refs) THEN refs[index + 1] ELSE Undefined

\* typeof value === "object"
IsObject(v) == v.t \in {"ptr", "regexp", "null"}

\* src/deserialize.ts:395-411
resolveRef ==
    /\ Running("resolveRef")
    /\ LET v == Top.v
           \* lines 406-410, with the keys ks still to visit
           walkKeys(h, ks) ==
               IF ks = <<>> THEN Go(Pop, pos, v, h)
               ELSE CallResolve([Top EXCEPT !.pc = "forin", !.acc = ks],
                                GetKey(h, v, ks[1]), h)
           \* lines 401-403 from index i, then lines 405-410
           walkArray(h, i) ==
               IF i < Len(h[v.n].vals)
               THEN CallResolve([Top EXCEPT !.pc = "array", !.idx = i],
                                h[v.n].vals[i + 1], h)
               ELSE walkKeys(h, ForInKeys(v))
       IN  CASE Top.pc = "entry" ->
                  IF v.t = "ref" THEN Return(Deref(v.n), pos)
                  ELSE IF IsArray(v) THEN walkArray(heap, 0)
                  ELSE IF IsObject(v) THEN walkKeys(heap, ForInKeys(v))
                  ELSE Return(v, pos)
             [] Top.pc = "array" ->
                  walkArray([heap EXCEPT ![v.n].vals[Top.idx + 1] = ret],
                            Top.idx + 1)
             [] Top.pc = "forin" ->
                  walkKeys(PutKey(heap, v, Top.acc[1], ret), Tail(Top.acc))

\* ------------------------------------------------------------ driver

\* A variant of the driver that does not look for input left over.
AtEndUnchecked(p) == TRUE

\* src/deserialize.ts:390
AtEnd(p) == Len(buf) = p

\* src/deserialize.ts:18-24, 382-392, 413
deserialize ==
    /\ Running("deserialize")
    /\ CASE Top.pc = "init" ->
              Go(Call([Top EXCEPT !.pc = "statement"], Frame("parseJson", "start")),
                 pos, ret, heap)
         [] Top.pc = "statement" ->
              \* refs.push(parseJson()); white(); then lines 384-392 and 413
              LET p == white(pos)
              IN  /\ refs' = Append(refs, ret)
                  /\ pos' = IF At(p) = ";" THEN p + 1 ELSE p
                  /\ IF At(p) = ";"
                     THEN /\ stack' = Call(Top, Frame("parseJson", "start"))
                          /\ UNCHANGED <<status, err>>
                     ELSE IF ~AtEnd(p)
                     THEN /\ stack' = <<>>
                          /\ status' = "threw"
                          /\ err' = error(p)
                     ELSE /\ stack' = Call([Top EXCEPT !.pc = "return"],
                                           [Frame("resolveRef", "entry")
                                              EXCEPT !.v = refs'[1]])
                          /\ UNCHANGED <<status, err>>
                  /\ parsed' = IF At(p) # ";" /\ AtEnd(p) THEN heap ELSE parsed
                  /\ UNCHANGED <<buf, classes, ret, heap, warnings, result, docs,
                                 saved>>
         [] Top.pc = "return" ->
              /\ status' = "returned"
              /\ result' = ret
              /\ stack' = <<>>
              /\ UNCHANGED <<buf, classes, pos, ret, refs, heap, warnings, err,
                             parsed, docs, saved>>

\* ------------------------------------------------------------ calls

NoOutcome == [status |-> "none", result |-> Undefined, heap |-> <<>>,
              err |-> NoError, warnings |-> <<>>]

\* The state at the start of deserialize(code, {classes}), with the inputs of
\* the calls that follow it.
Start(code, cls, rest, before) ==
    /\ buf = code
    /\ classes = cls
    /\ pos = 0
    /\ stack = <<Frame("deserialize", "init")>>
    /\ ret = Undefined
    /\ refs = <<>>
    /\ heap = <<>>
    /\ warnings = <<>>
    /\ status = "running"
    /\ err = NoError
    /\ result = Undefined
    /\ parsed = <<>>
    /\ docs = rest
    /\ saved = before

\* A second call, on the next input, after the first returned: every call
\* starts from fresh local state (src/deserialize.ts:19-24).
again ==
    /\ status = "returned"
    /\ docs # <<>>
    /\ buf' = Head(docs)
    /\ docs' = Tail(docs)
    /\ saved' = [status |-> status, result |-> result, heap |-> heap,
                 err |-> err, warnings |-> warnings]
    /\ pos' = 0
    /\ stack' = <<Frame("deserialize", "init")>>
    /\ ret' = Undefined
    /\ refs' = <<>>
    /\ heap' = <<>>
    /\ warnings' = <<>>
    /\ status' = "running"
    /\ err' = NoError
    /\ result' = Undefined
    /\ parsed' = <<>>
    /\ UNCHANGED classes

\* ------------------------------------------------------------ inputs

RECURSIVE Flatten(_)
Flatten(ps) == IF ps = <<>> THEN <<>> ELSE ps[1] \o Flatten(Tail(ps))

\* The sequences of at most n elements of S.
SeqsUpTo(S, n) == UNION {[1..k -> S] : k \in 0..n}

FooName == <<"F", "o", "o">>
ToStringName == <<"t", "o", "S", "t", "r", "i", "n", "g">>
InfinityName == <<"I", "n", "f", "i", "n", "i", "t", "y">>

\* The general inputs: any pieces, in any order, with no classes given.
Pieces ==
    {<<"$", "0">>, <<"[">>, <<"]">>, <<"{">>, <<"}">>, <<";">>, <<",">>, <<DQ>>,
     <<BS>>, <<"i">>, <<"m">>, <<"1">>, <<"/">>, <<" ">>}

Init ==
    \E ps \in SeqsUpTo(Pieces, MaxPieces) :
        Start(Flatten(ps), {}, <<>>, NoOutcome)

Next ==
    \/ deserialize
    \/ parseJson
    \/ parseRef
    \/ parseArray
    \/ parseObject
    \/ parseNumber
    \/ parseString
    \/ parseRegExp
    \/ resolveRef

Spec == Init /\ [][Next]_vars

\* The reference inputs: statements that hold references, joined by ";".
RefAtoms == {<<"5">>, <<"$", "0">>, <<"$", "1">>, <<"$", "2">>}
KeyA == <<"{", DQ, "a", DQ, ":">>
RefStatements ==
    UNION {{v,
            <<"[">> \o v \o <<"]">>,
            <<"[">> \o v \o <<",", "5", "]">>,
            KeyA \o v \o <<"}">>,
            KeyA \o <<"[">> \o v \o <<"]", "}">>,
            KeyA \o v \o <<",", DQ, "b", DQ, ":", "5", "}">>} : v \in RefAtoms}

RECURSIVE Join(_)
Join(ss) ==
    IF Len(ss) = 1 THEN ss[1] ELSE ss[1] \o <<";">> \o Join(Tail(ss))

InitRef ==
    \E ss \in SeqsUpTo(RefStatements, MaxStmts) :
        /\ ss # <<>>
        /\ Start(Join(ss), {}, <<>>, NoOutcome)

\* The actions left out are never enabled on these inputs.
NextRef ==
    \/ deserialize
    \/ parseJson
    \/ parseRef
    \/ parseArray
    \/ parseObject
    \/ parseNumber
    \/ parseString
    \/ resolveRef

SpecRef == InitRef /\ [][NextRef]_vars

\* The number inputs: the characters a number is made of, in any order.
NumberPieces ==
    {<<"-">>, <<"0">>, <<"1">>, <<".">>, <<"e">>, <<"+">>, <<"n">>, InfinityName}

InitNumber ==
    \E ps \in SeqsUpTo(NumberPieces, MaxNumLen) :
        Start(Flatten(ps), {}, <<>>, NoOutcome)

NextNumber ==
    \/ deserialize
    \/ parseJson
    \/ parseNumber
    \/ resolveRef

SpecNumber == InitNumber /\ [][NextNumber]_vars

\* The class-tag inputs: names, braces and a field, with and without a class
\* registered.
TagPieces ==
    {FooName, ToStringName, ObjectConstructorKey, <<"{">>, <<"}">>, <<",">>,
     <<DQ, "a", DQ, ":", "1">>}

InitTag ==
    \E ps \in SeqsUpTo(TagPieces, MaxTagPieces), cls \in {{}, {FooName}} :
        Start(Flatten(ps), cls, <<>>, NoOutcome)

NextTag ==
    \/ deserialize
    \/ parseJson
    \/ parseObject
    \/ parseString
    \/ parseNumber
    \/ resolveRef

SpecTag == InitTag /\ [][NextTag]_vars

\* The whitespace inputs: a document of tokens, then the same document with a
\* run of whitespace put between two of its tokens (or before or after them).
Tokens ==
    {FooName, <<"{">>, <<"}">>, <<"[">>, <<"]">>, <<"1">>, <<",">>, <<";">>}
WsRuns == {<<" ">>, <<"\r", "\n", "\t">>}

InitWs ==
    \E ts \in SeqsUpTo(Tokens, MaxTokens) :
        \E gap \in 0..Len(ts), run \in WsRuns :
            Start(Flatten(ts), {},
                  <<Flatten(SubSeq(ts, 1, gap)) \o run
                      \o Flatten(SubSeq(ts, gap + 1, Len(ts)))>>,
                  NoOutcome)

NextWs ==
    \/ deserialize
    \/ parseJson
    \/ parseArray
    \/ parseObject
    \/ parseNumber
    \/ resolveRef
    \/ again

SpecWs == InitWs /\ [][NextWs]_vars

\* ------------------------------------------------------- properties

Done == status # "running"

\* The addresses value v leads to in heap h, through elements and fields.
PtrsOf(h, a) ==
    {h[a].vals[i].n : i \in {j \in 1..Len(h[a].vals) : h[a].vals[j].t = "ptr"}}

RECURSIVE Closure(_, _)
Closure(h, S) ==
    LET N == S \cup UNION {PtrsOf(h, a) : a \in S}
    IN  IF N = S THEN S ELSE Closure(h, N)

Reach(h, v) == IF v.t = "ptr" THEN Closure(h, {v.n}) ELSE {}

HoldsPlaceholder(h, a) == \E i \in 1..Len(h[a].vals) : h[a].vals[i].t = "ref"

\* C1: when deserialize returns, the returned value is no placeholder and no
\* array element or object field reachable from it is one.
C1_NoPlaceholderEscapes ==
    status = "returned" =>
        /\ result.t # "ref"
        /\ \A a \in Reach(heap, result) : ~HoldsPlaceholder(heap, a)

\* C2: when deserialize returns, every $k that was parsed as an element or
\* field inside statement 0 holds the value at index k of the reference table
\* (the same address for a container), and the value returned is statement 0
\* resolved.
C2_ReferenceReplacedByTableEntry ==
    status = "returned" =>
        /\ result = IF refs[1].t = "ref" THEN Deref(refs[1].n) ELSE refs[1]
        /\ \A a \in Reach(parsed, refs[1]) :
               \A i \in 1..Len(parsed[a].vals) :
                   parsed[a].vals[i].t = "ref" =>
                       heap[a].vals[i] = Deref(parsed[a].vals[i].n)

\* C3: the resolution walk ends with a value: the call stack never overflows,
\* and no container is entered while the walk is already inside it.
C3_ResolutionTerminates ==
    /\ ~(status = "threw" /\ err.kind = "RangeError")
    /\ \A i, j \in 1..Len(stack) :
           (i < j /\ stack[i].fn = "resolveRef" /\ stack[j].fn = "resolveRef"
                  /\ stack[i].v.t = "ptr")
               => stack[i].v # stack[j].v

\* C4: when the string lexer finds the end of the input where a character or
\* the closing quote should be, its next step throws a SyntaxError and the
\* cursor stays inside the buffer.
C4_UnterminatedStringFails ==
    [][(Running("parseString") /\ Top.pc = "loop" /\ At(pos) = Undef)
           => (status' = "threw" /\ err'.kind = "SyntaxError" /\ pos' <= Len(buf))]_vars

\* C5: when a key is due and the character there is not a double quote, the
\* next step throws the SyntaxError for that character: it is not skipped.
C5_KeyMustBeQuoted ==
    [][(Running("parseString") /\ Top.pc = "open" /\ At(pos) # DQ)
           => (status' = "threw" /\ err' = error(pos))]_vars

\* C6: when the body of a class tag whose name is no own key of classes has
\* been parsed, the next step warns about that name and hands back the plain
\* object as parsed; it does not throw.
C6_UnregisteredTagWarns ==
    [][(Running("parseJson") /\ Top.pc = "tag" /\ Top.key \notin classes)
           => /\ status' = "running"
              /\ warnings' = Append(warnings, Top.key)
              /\ ret' = ret
              /\ heap' = heap]_vars

\* C7: a document that was accepted is accepted with the whitespace put
\* between its tokens too, and parses to the same result.
C7_WhitespaceInsensitive ==
    (saved.status = "returned" /\ Done) =>
        /\ status = "returned"
        /\ result = saved.result
        /\ heap = saved.heap

\* C8: deserialize returns only with the cursor at the end of the input; and
\* when a statement has been parsed and a character other than ";" follows
\* the whitespace after it, the call throws the SyntaxError naming that
\* character and its offset, and returns nothing.
C8_WholeInputConsumed ==
    [][/\ status' = "returned" => (pos' = Len(buf) /\ Len(refs) >= 1)
       /\ LET p == white(pos)
          IN  (Running("deserialize") /\ Top.pc = "statement" /\ p < Len(buf)
                 /\ buf[p + 1] # ";")
                  => /\ status' = "threw"
                     /\ err' = [kind |-> "SyntaxError",
                                msg |-> "Unexpected token in JSON at position",
                                token |-> buf[p + 1], pos |-> p]
                     /\ result' = Undefined]_vars

\* A single statement followed by whitespace and then by one more character.
C8_Witness ==
    /\ status = "threw"
    /\ \A i \in 1..Len(buf) : buf[i] # ";"
    /\ Len(refs) = 1
    /\ pos > 0 /\ pos < Len(buf)
    /\ At(pos - 1) \in WS_CHARS
    /\ err = error(pos)

\* C9: the cursor never moves back and never passes the end of the buffer.
C9_CursorInBounds ==
    [][pos' >= pos /\ 0 <= pos' /\ pos' <= Len(buf')]_vars

\* The grammar of numbers, as sets of character sequences.
Digits(s) == s # <<>> /\ \A i \in 1..Len(s) : s[i] \in NUM_CHARS

Unsigned(s) == IF s # <<>> /\ s[1] = "-" THEN Tail(s) ELSE s

IsFraction(f) == f = <<>> \/ (f[1] = "." /\ Digits(Tail(f)))

IsExponent(x) ==
    \/ x = <<>>
    \/ /\ x[1] \in {"e", "E"}
       /\ \/ Digits(Tail(x))
          \/ Len(x) >= 2 /\ x[2] \in {"+", "-"} /\ Digits(SubSeq(x, 3, Len(x)))

IsBigIntLiteral(s) ==
    LET t == Unsigned(s)
    IN  Len(t) >= 2 /\ t[Len(t)] = "n" /\ Digits(SubSeq(t, 1, Len(t) - 1))

IsFloatLiteral(s) ==
    LET t == Unsigned(s)
    IN  \E i \in 1..Len(t), j \in 1..Len(t) :
            /\ i <= j
            /\ Digits(SubSeq(t, 1, i))
            /\ IsFraction(SubSeq(t, i + 1, j))
            /\ IsExponent(SubSeq(t, j + 1, Len(t)))

IsInfinityLiteral(s) == Unsigned(s) = InfinityName

IsNumberLiteral(s) ==
    IsBigIntLiteral(s) \/ IsFloatLiteral(s) \/ IsInfinityLiteral(s)

\* The first q characters of s are a number up to and including a "." or an
\* exponent marker with its sign, and no digit follows.
ExpectsDigitAt(s, q) ==
    LET t == Unsigned(SubSeq(s, 1, q))
        next == IF q < Len(s) THEN s[q + 1] ELSE Undef
    IN  /\ next \notin NUM_CHARS
        /\ Len(t) >= 2
        /\ \/ t[Len(t)] = "." /\ Digits(SubSeq(t, 1, Len(t) - 1))
           \/ \E i \in 1..Len(t), j \in 1..Len(t) :
                  /\ i <= j
                  /\ Digits(SubSeq(t, 1, i))
                  /\ IsFraction(SubSeq(t, i + 1, j))
                  /\ LET x == SubSeq(t, j + 1, Len(t))
                     IN  \/ Len(x) = 1 /\ x[1] \in {"e", "E"}
                            /\ next \notin {"+", "-"}
                         \/ Len(x) = 2 /\ x[1] \in {"e", "E"}
                            /\ x[2] \in {"+", "-"}

\* C10: an input of number characters is accepted exactly when it is a number
\* of the grammar; a "." or an exponent marker with no digit after it fails
\* with the SyntaxError at the place of the missing digit; "n" after the
\* integer digits gives the big integer with the sign applied; Infinity keeps
\* its sign, and -0 is negative zero.
C10_NumberLexer ==
    Done =>
        /\ status = "returned" <=> IsNumberLiteral(buf)
        /\ \A q \in 1..Len(buf) :
               ExpectsDigitAt(buf, q) =>
                   /\ status = "threw"
                   /\ err.kind = "SyntaxError"
                   /\ err.pos = q
                   /\ err.token = IF q < Len(buf) THEN buf[q + 1] ELSE ""
        /\ IsBigIntLiteral(buf) =>
               LET t == Unsigned(buf)
                   n == DigitsVal(SubSeq(t, 1, Len(t) - 1))
               IN  /\ result.t = "bigint"
                   /\ result.n = n
                   /\ result.neg = (buf[1] = "-" /\ n # 0)
        /\ IsFloatLiteral(buf) =>
               result.t = "number" /\ result.neg = (buf[1] = "-")
        /\ IsInfinityLiteral(buf) => result = Infinity(buf[1] = "-")
        /\ buf = <<"-", "0">> =>
               result.t = "number" /\ result.neg /\ result.n = 0

\* A number cut off after its "." or its exponent marker, failing there.
C10_Witness ==
    /\ status = "threw"
    /\ \E q \in 1..Len(buf) : ExpectsDigitAt(buf, q) /\ err.pos = q

====
